---------------------------- MODULE Spec2Model ----------------------------
(***************************************************************************)
(* TOTITO: tic-tac-toe against a minimax opponent (src/totito.py).         *)
(*                                                                         *)
(* The board is the list of 9 cells of the source, indexed 0..8; a cell    *)
(* holds None, "X" (human) or "O" (computer).  The pure functions of the   *)
(* source (verificar_ganador, celdas_vacias, minimax, mejor_jugada,        *)
(* jugada_ia) are operators.  minimax and mejor_jugada write the board in  *)
(* place, so their operators take the board and return it together with    *)
(* the value: the board the caller sees afterwards is the returned one.    *)
(***************************************************************************)
EXTENDS Integers, Sequences, FiniteSets

VARIABLES
    totito,         \* the fields of the Totito object (self.tablero, self.juego_activo, ...)
    llamada         \* the call of a core function under observation, with what it returned

vars == <<totito, llamada>>

---------------------------------------------------------------------------
(* Values of the source *)

None == "None"
X == "X"
O == "O"
empate == "empate"

\* math.inf: greater than every score (scores lie in -10..10)
Inf == 100

Celdas == 0..8
Simbolos == {None, X, O}

\* [None] * 9
TableroVacio == [i \in Celdas |-> None]

\* Python truthiness of a cell: None is falsy, "X" and "O" are truthy
Truthy(v) == v # None

max(a, b) == IF a >= b THEN a ELSE b
min(a, b) == IF a <= b THEN a ELSE b

COMBINACIONES_GANADORAS ==
    << <<0, 1, 2>>, <<3, 4, 5>>, <<6, 7, 8>>,
       <<0, 3, 6>>, <<1, 4, 7>>, <<2, 5, 8>>,
       <<0, 4, 8>>, <<2, 4, 6>> >>

\* Completa with the third cell of the line left out of the comparison
Completa_sin_tercera(t, linea) ==
    /\ Truthy(t[linea[1]])
    /\ t[linea[1]] = t[linea[2]]

\* tablero[a] and tablero[a] == tablero[b] == tablero[c]
Completa(t, linea) ==
    /\ Truthy(t[linea[1]])
    /\ t[linea[1]] = t[linea[2]]
    /\ t[linea[2]] = t[linea[3]]

\* the loop returns at the first completed line of COMBINACIONES_GANADORAS;
\* after the loop a full board is a draw, any other board is in progress
verificar_ganador(t) ==
    LET ganadoras == SelectSeq(COMBINACIONES_GANADORAS, LAMBDA l : Completa(t, l))
    IN  IF ganadoras # <<>>
        THEN [ganador |-> t[ganadoras[1][1]], linea |-> ganadoras[1]]
        ELSE IF \A i \in Celdas : Truthy(t[i])
             THEN [ganador |-> empate, linea |-> <<>>]
             ELSE [ganador |-> None, linea |-> None]

\* enumerate(tablero): the indices in increasing order
Indices == <<0, 1, 2, 3, 4, 5, 6, 7, 8>>

\* [i for i, v in enumerate(tablero) if not v]
celdas_vacias(t) == SelectSeq(Indices, LAMBDA i : ~Truthy(t[i]))

RECURSIVE minimax(_, _, _, _, _)
RECURSIVE bucle_max(_, _, _, _, _, _, _)
RECURSIVE bucle_min(_, _, _, _, _, _, _)

\* bucle_max with the pruning break taken before the simulated move is undone
bucle_max_poda_sin_deshacer(t, vacias, k, profundidad, mejor, alfa, beta) ==
    IF k > Len(vacias) THEN [puntaje |-> mejor, tablero |-> t]
    ELSE LET i == vacias[k]
             r == minimax([t EXCEPT ![i] = O], FALSE, profundidad + 1, alfa, beta)
             t2 == [r.tablero EXCEPT ![i] = None]
             mejor2 == max(mejor, r.puntaje)
             alfa2 == max(alfa, mejor2)
         IN  IF beta <= alfa2
             THEN [puntaje |-> mejor2, tablero |-> r.tablero]
             ELSE bucle_max(t2, vacias, k + 1, profundidad, mejor2, alfa2, beta)

\* the maximizer's loop over vacias from position k on, with the running
\* mejor, alfa; returns the score and the board as the loop leaves it
bucle_max(t, vacias, k, profundidad, mejor, alfa, beta) ==
    IF k > Len(vacias) THEN [puntaje |-> mejor, tablero |-> t]
    ELSE LET i == vacias[k]
             r == minimax([t EXCEPT ![i] = O], FALSE, profundidad + 1, alfa, beta)
             t2 == [r.tablero EXCEPT ![i] = None]
             mejor2 == max(mejor, r.puntaje)
             alfa2 == max(alfa, mejor2)
         IN  IF beta <= alfa2
             THEN [puntaje |-> mejor2, tablero |-> t2]
             ELSE bucle_max(t2, vacias, k + 1, profundidad, mejor2, alfa2, beta)

\* bucle_min leaving its loop at the pruning break before the undo
bucle_min_poda_sin_deshacer(t, vacias, k, profundidad, mejor, alfa, beta) ==
    IF k > Len(vacias) THEN [puntaje |-> mejor, tablero |-> t]
    ELSE LET i == vacias[k]
             r == minimax([t EXCEPT ![i] = X], TRUE, profundidad + 1, alfa, beta)
             t2 == [r.tablero EXCEPT ![i] = None]
             mejor2 == min(mejor, r.puntaje)
             beta2 == min(beta, mejor2)
         IN  IF beta2 <= alfa
             THEN [puntaje |-> mejor2, tablero |-> r.tablero]
             ELSE bucle_min(t2, vacias, k + 1, profundidad, mejor2, alfa, beta2)

\* bucle_min with the operands of the pruning test exchanged
bucle_min_poda_invertida(t, vacias, k, profundidad, mejor, alfa, beta) ==
    IF k > Len(vacias) THEN [puntaje |-> mejor, tablero |-> t]
    ELSE LET i == vacias[k]
             r == minimax([t EXCEPT ![i] = X], TRUE, profundidad + 1, alfa, beta)
             t2 == [r.tablero EXCEPT ![i] = None]
             mejor2 == min(mejor, r.puntaje)
             beta2 == min(beta, mejor2)
         IN  IF alfa <= beta2
             THEN [puntaje |-> mejor2, tablero |-> t2]
             ELSE bucle_min(t2, vacias, k + 1, profundidad, mejor2, alfa, beta2)

\* the minimizer's loop
bucle_min(t, vacias, k, profundidad, mejor, alfa, beta) ==
    IF k > Len(vacias) THEN [puntaje |-> mejor, tablero |-> t]
    ELSE LET i == vacias[k]
             r == minimax([t EXCEPT ![i] = X], TRUE, profundidad + 1, alfa, beta)
             t2 == [r.tablero EXCEPT ![i] = None]
             mejor2 == min(mejor, r.puntaje)
             beta2 == min(beta, mejor2)
         IN  IF beta2 <= alfa
             THEN [puntaje |-> mejor2, tablero |-> t2]
             ELSE bucle_min(t2, vacias, k + 1, profundidad, mejor2, alfa, beta2)

\* minimax adding the depth to the score of a computer win
minimax_suma_profundidad(t, es_ia, profundidad, alfa, beta) ==
    LET ganador == verificar_ganador(t).ganador
    IN  IF ganador = O THEN [puntaje |-> 10 + profundidad, tablero |-> t]
        ELSE IF ganador = X THEN [puntaje |-> profundidad - 10, tablero |-> t]
        ELSE IF ganador = empate THEN [puntaje |-> 0, tablero |-> t]
        ELSE LET vacias == celdas_vacias(t)
             IN  IF vacias = <<>> THEN [puntaje |-> 0, tablero |-> t]
                 ELSE IF es_ia
                      THEN bucle_max(t, vacias, 1, profundidad, -Inf, alfa, beta)
                      ELSE bucle_min(t, vacias, 1, profundidad, Inf, alfa, beta)

\* minimax scoring every win alike, whatever the depth
minimax_sin_profundidad(t, es_ia, profundidad, alfa, beta) ==
    LET ganador == verificar_ganador(t).ganador
    IN  IF ganador = O THEN [puntaje |-> 10, tablero |-> t]
        ELSE IF ganador = X THEN [puntaje |-> -10, tablero |-> t]
        ELSE IF ganador = empate THEN [puntaje |-> 0, tablero |-> t]
        ELSE LET vacias == celdas_vacias(t)
             IN  IF vacias = <<>> THEN [puntaje |-> 0, tablero |-> t]
                 ELSE IF es_ia
                      THEN bucle_max(t, vacias, 1, profundidad, -Inf, alfa, beta)
                      ELSE bucle_min(t, vacias, 1, profundidad, Inf, alfa, beta)

\* minimax with the score of a human win copied from the computer's win
minimax_puntaje_copiado(t, es_ia, profundidad, alfa, beta) ==
    LET ganador == verificar_ganador(t).ganador
    IN  IF ganador = O THEN [puntaje |-> 10 - profundidad, tablero |-> t]
        ELSE IF ganador = X THEN [puntaje |-> 10 - profundidad, tablero |-> t]
        ELSE IF ganador = empate THEN [puntaje |-> 0, tablero |-> t]
        ELSE LET vacias == celdas_vacias(t)
             IN  IF vacias = <<>> THEN [puntaje |-> 0, tablero |-> t]
                 ELSE IF es_ia
                      THEN bucle_max(t, vacias, 1, profundidad, -Inf, alfa, beta)
                      ELSE bucle_min(t, vacias, 1, profundidad, Inf, alfa, beta)

minimax(t, es_ia, profundidad, alfa, beta) ==
    LET ganador == verificar_ganador(t).ganador
    IN  IF ganador = O THEN [puntaje |-> 10 - profundidad, tablero |-> t]
        ELSE IF ganador = X THEN [puntaje |-> profundidad - 10, tablero |-> t]
        ELSE IF ganador = empate THEN [puntaje |-> 0, tablero |-> t]
        ELSE LET vacias == celdas_vacias(t)
             IN  IF vacias = <<>> THEN [puntaje |-> 0, tablero |-> t]
                 ELSE IF es_ia
                      THEN bucle_max(t, vacias, 1, profundidad, -Inf, alfa, beta)
                      ELSE bucle_min(t, vacias, 1, profundidad, Inf, alfa, beta)

RECURSIVE bucle_mejor(_, _, _, _, _)

\* bucle_mejor scoring each candidate as if the computer moved again
\* (es_ia = True in the call of minimax)
bucle_mejor_turno_ia(t, vacias, k, mejor_puntaje, movimiento) ==
    IF k > Len(vacias) THEN [movimiento |-> movimiento, tablero |-> t]
    ELSE LET i == vacias[k]
             r == minimax([t EXCEPT ![i] = O], TRUE, 0, -Inf, Inf)
             t2 == [r.tablero EXCEPT ![i] = None]
         IN  IF r.puntaje > mejor_puntaje
             THEN bucle_mejor(t2, vacias, k + 1, r.puntaje, i)
             ELSE bucle_mejor(t2, vacias, k + 1, mejor_puntaje, movimiento)

\* bucle_mejor keeping the last of several equally scored cells (>=)
bucle_mejor_ultimo_empate(t, vacias, k, mejor_puntaje, movimiento) ==
    IF k > Len(vacias) THEN [movimiento |-> movimiento, tablero |-> t]
    ELSE LET i == vacias[k]
             r == minimax([t EXCEPT ![i] = O], FALSE, 0, -Inf, Inf)
             t2 == [r.tablero EXCEPT ![i] = None]
         IN  IF r.puntaje >= mejor_puntaje
             THEN bucle_mejor(t2, vacias, k + 1, r.puntaje, i)
             ELSE bucle_mejor(t2, vacias, k + 1, mejor_puntaje, movimiento)

\* the loop of mejor_jugada over vacias from position k on
bucle_mejor(t, vacias, k, mejor_puntaje, movimiento) ==
    IF k > Len(vacias) THEN [movimiento |-> movimiento, tablero |-> t]
    ELSE LET i == vacias[k]
             r == minimax([t EXCEPT ![i] = O], FALSE, 0, -Inf, Inf)
             t2 == [r.tablero EXCEPT ![i] = None]
         IN  IF r.puntaje > mejor_puntaje
             THEN bucle_mejor(t2, vacias, k + 1, r.puntaje, i)
             ELSE bucle_mejor(t2, vacias, k + 1, mejor_puntaje, movimiento)

\* mejor_jugada with mejor_puntaje started at 0
mejor_jugada_desde_cero(t) == bucle_mejor(t, celdas_vacias(t), 1, 0, -1)

\* mejor_jugada with movimiento started at cell 0
mejor_jugada_movimiento_cero(t) == bucle_mejor(t, celdas_vacias(t), 1, -Inf, 0)

mejor_jugada(t) == bucle_mejor(t, celdas_vacias(t), 1, -Inf, -1)

\* the difficulty names of the source ("Fácil", "Normal", "Difícil")
Facil == "Facil"
Normal == "Normal"
Dificil == "Dificil"
Dificultades == {Facil, Normal, Dificil}

\* jugada_ia as its docstring describes "Dificil": 15% random
jugada_ia_docstring(t, dificultad, u, v) ==
    LET vacias == celdas_vacias(t)
    IN  IF vacias = <<>> THEN [movimiento |-> -1, tablero |-> t]
        ELSE IF dificultad = Facil
             THEN IF u < 90 THEN [movimiento |-> vacias[v], tablero |-> t]
                  ELSE mejor_jugada(t)
        ELSE IF dificultad = Normal
             THEN IF u < 50 THEN [movimiento |-> vacias[v], tablero |-> t]
                  ELSE mejor_jugada(t)
        ELSE IF u < 15 THEN [movimiento |-> vacias[v], tablero |-> t]
             ELSE mejor_jugada(t)

\* jugada_ia drawing the random cell among all 9 cells
jugada_ia_celda_cualquiera(t, dificultad, u, v) ==
    LET vacias == celdas_vacias(t)
    IN  IF vacias = <<>> THEN [movimiento |-> -1, tablero |-> t]
        ELSE IF dificultad = Facil
             THEN IF u < 90 THEN [movimiento |-> v - 1, tablero |-> t]
                  ELSE mejor_jugada(t)
        ELSE IF dificultad = Normal
             THEN IF u < 50 THEN [movimiento |-> v - 1, tablero |-> t]
                  ELSE mejor_jugada(t)
        ELSE mejor_jugada(t)

\* jugada_ia treating every tier other than "Facil" as "Normal"
jugada_ia_sin_tercer_nivel(t, dificultad, u, v) ==
    LET vacias == celdas_vacias(t)
    IN  IF vacias = <<>> THEN [movimiento |-> -1, tablero |-> t]
        ELSE IF dificultad = Facil
             THEN IF u < 90 THEN [movimiento |-> vacias[v], tablero |-> t]
                  ELSE mejor_jugada(t)
        ELSE IF u < 50 THEN [movimiento |-> vacias[v], tablero |-> t]
             ELSE mejor_jugada(t)

\* jugada_ia, given what the random source yields: u is random.random() in
\* hundredths (random.random() < 0.90 is u < 90), v the position in vacias
\* that random.choice picks
jugada_ia(t, dificultad, u, v) ==
    LET vacias == celdas_vacias(t)
    IN  IF vacias = <<>> THEN [movimiento |-> -1, tablero |-> t]
        ELSE IF dificultad = Facil
             THEN IF u < 90 THEN [movimiento |-> vacias[v], tablero |-> t]
                  ELSE mejor_jugada(t)
        ELSE IF dificultad = Normal
             THEN IF u < 50 THEN [movimiento |-> vacias[v], tablero |-> t]
                  ELSE mejor_jugada(t)
        ELSE mejor_jugada(t)

---------------------------------------------------------------------------
(* The Totito object: s is the record of its fields *)

\* Totito.__init__
Construido ==
    [tablero      |-> TableroVacio,
     juego_activo |-> TRUE,
     turno_humano |-> TRUE,
     dificultad   |-> Facil,
     puntajes     |-> [X |-> 0, empate |-> 0, O |-> 0],
     pendientes   |-> 0]       \* _turno_ia callbacks scheduled by root.after

\* the counter of puntajes that _fin_juego increments
Contador(ganador) ==
    IF ganador = empate THEN "empate" ELSE IF ganador = X THEN "X" ELSE "O"

_fin_juego(s, ganador, linea) ==
    [s EXCEPT !.juego_activo = FALSE,
              !.turno_humano = FALSE,
              !.puntajes[Contador(ganador)] = @ + 1]

\* _realizar_jugada without the call of root.after
_realizar_jugada_sin_programar(s, index, simbolo) ==
    LET s1 == [s EXCEPT !.tablero[index] = simbolo]
        r == verificar_ganador(s1.tablero)
    IN  IF Truthy(r.ganador) THEN _fin_juego(s1, r.ganador, r.linea)
        ELSE IF simbolo = X
             THEN [s1 EXCEPT !.turno_humano = FALSE]
             ELSE s1

\* _realizar_jugada ending the round only on a draw
_realizar_jugada_solo_empate(s, index, simbolo) ==
    LET s1 == [s EXCEPT !.tablero[index] = simbolo]
        r == verificar_ganador(s1.tablero)
    IN  IF r.ganador = empate THEN _fin_juego(s1, r.ganador, r.linea)
        ELSE IF simbolo = X
             THEN [s1 EXCEPT !.turno_humano = FALSE,
                             !.pendientes = @ + 1]
             ELSE s1

_realizar_jugada(s, index, simbolo) ==
    LET s1 == [s EXCEPT !.tablero[index] = simbolo]
        r == verificar_ganador(s1.tablero)
    IN  IF Truthy(r.ganador) THEN _fin_juego(s1, r.ganador, r.linea)
        ELSE IF simbolo = X
             THEN [s1 EXCEPT !.turno_humano = FALSE,
                             !.pendientes = @ + 1]
             ELSE s1

\* _click_tablero without the test of the clicked cell
_click_tablero_sin_ocupada(s, x, y) ==
    IF ~s.juego_activo \/ ~s.turno_humano THEN s
    ELSE LET col == x \div (340 \div 3)
             fila == y \div (340 \div 3)
             index == fila * 3 + col
         IN  IF col > 2 \/ fila > 2 THEN s
             ELSE _realizar_jugada(s, index, X)

\* _click_tablero without the test of turno_humano
_click_tablero_sin_turno(s, x, y) ==
    IF ~s.juego_activo THEN s
    ELSE LET col == x \div (340 \div 3)
             fila == y \div (340 \div 3)
             index == fila * 3 + col
         IN  IF col > 2 \/ fila > 2 THEN s
             ELSE IF Truthy(s.tablero[index]) THEN s
             ELSE _realizar_jugada(s, index, X)

\* a click at pixel (x, y) of the 340 x 340 canvas
_click_tablero(s, x, y) ==
    IF ~s.juego_activo \/ ~s.turno_humano THEN s
    ELSE LET col == x \div (340 \div 3)
             fila == y \div (340 \div 3)
             index == fila * 3 + col
         IN  IF col > 2 \/ fila > 2 THEN s
             ELSE IF Truthy(s.tablero[index]) THEN s
             ELSE _realizar_jugada(s, index, X)

\* _turno_ia without the test of juego_activo at its start
_turno_ia_sin_guarda(s, u, v) ==
    LET s0 == [s EXCEPT !.pendientes = @ - 1]
        r == jugada_ia(s0.tablero, s0.dificultad, u, v)
        s1 == [s0 EXCEPT !.tablero = r.tablero]
        s2 == IF r.movimiento # -1
              THEN _realizar_jugada(s1, r.movimiento, O)
              ELSE s1
    IN  IF s2.juego_activo THEN [s2 EXCEPT !.turno_humano = TRUE]
        ELSE s2

\* _turno_ia asking jugada_ia for a move of the tier "Facil" whatever the
\* selected difficulty
_turno_ia_siempre_facil(s, u, v) ==
    LET s0 == [s EXCEPT !.pendientes = @ - 1]
    IN  IF ~s0.juego_activo THEN s0
        ELSE LET r == jugada_ia(s0.tablero, Facil, u, v)
                 s1 == [s0 EXCEPT !.tablero = r.tablero]
                 s2 == IF r.movimiento # -1
                       THEN _realizar_jugada(s1, r.movimiento, O)
                       ELSE s1
             IN  IF s2.juego_activo THEN [s2 EXCEPT !.turno_humano = TRUE]
                 ELSE s2

\* the callback root.after(350, self._turno_ia) runs: one scheduled callback
\* is consumed; u, v are what the random source yields to jugada_ia
_turno_ia(s, u, v) ==
    LET s0 == [s EXCEPT !.pendientes = @ - 1]
    IN  IF ~s0.juego_activo THEN s0
        ELSE LET r == jugada_ia(s0.tablero, s0.dificultad, u, v)
                 s1 == [s0 EXCEPT !.tablero = r.tablero]
                 s2 == IF r.movimiento # -1
                       THEN _realizar_jugada(s1, r.movimiento, O)
                       ELSE s1
             IN  IF s2.juego_activo THEN [s2 EXCEPT !.turno_humano = TRUE]
                 ELSE s2

\* nueva_partida without the assignment to juego_activo
nueva_partida_sin_activar(s) ==
    [s EXCEPT !.tablero = TableroVacio,
              !.turno_humano = TRUE]

nueva_partida(s) ==
    [s EXCEPT !.tablero = TableroVacio,
              !.juego_activo = TRUE,
              !.turno_humano = TRUE]

\* reset_total keeping the scoreboard
reset_total_sin_marcador(s) ==
    nueva_partida(s)

reset_total(s) ==
    nueva_partida([s EXCEPT !.puntajes = [X |-> 0, empate |-> 0, O |-> 0]])

_cambiar_dificultad(s, diff) ==
    nueva_partida([s EXCEPT !.dificultad = diff])

---------------------------------------------------------------------------
(* Inputs *)

\* every list of 9 cells
Tableros == [Celdas -> Simbolos]

\* the boards on which the difficulty modulator is exercised: those with at
\* most MaxVacias empty cells
MaxVacias == 4
TablerosModulador == {t \in Tableros : Len(celdas_vacias(t)) <= MaxVacias}

\* values of random.random() in hundredths: one below every threshold, one
\* between the thresholds of Normal and Facil, one above every threshold
Extracciones == {10, 70, 95}

\* what the random source yields to one call of jugada_ia: <<u, v>>, with
\* every position v of vacias when the call reads random.choice, and a single
\* v when it does not read it
Sorteos(t, dificultad) ==
    LET n == Len(celdas_vacias(t))
        umbral == IF dificultad = Facil THEN 90
                  ELSE IF dificultad = Normal THEN 50 ELSE 0
    IN  {s \in Extracciones \X (1..9) :
            IF s[1] < umbral THEN s[2] <= n ELSE s[2] = 1}

\* the pruning windows <<alfa, beta>> with which minimax is called directly:
\* the widest one, and one that a win of either side closes
Ventanas == {<<-Inf, Inf>>, <<-2, 2>>}

\* pixels of the canvas: one inside each column (row) and the last pixel,
\* which lies outside the grid of 3 x 113
Pixeles == {56, 170, 284, 339}

---------------------------------------------------------------------------
(* Calls of the core functions on a board *)

SinLlamada(t) ==
    [fn |-> "ninguna", tablero |-> t, entrada |-> t, args |-> <<>>, sal |-> None]

\* a call of verificar_ganador that takes the cells of the completed line
\* off the list it is passed
LlamarVerificarGanador_vacia_linea ==
    /\ llamada.fn = "ninguna"
    /\ llamada' = [llamada EXCEPT
                     !.fn = "verificar_ganador",
                     !.sal = verificar_ganador(llamada.tablero),
                     !.tablero = [i \in Celdas |->
                                    IF \E l \in {verificar_ganador(llamada.tablero).linea} :
                                          l # None /\ \E k \in 1..Len(l) : l[k] = i
                                    THEN None ELSE llamada.tablero[i]]]
    /\ UNCHANGED totito

LlamarVerificarGanador ==
    /\ llamada.fn = "ninguna"
    /\ llamada' = [llamada EXCEPT !.fn = "verificar_ganador",
                                  !.sal = verificar_ganador(llamada.tablero)]
    /\ UNCHANGED totito

LlamarCeldasVacias ==
    /\ llamada.fn = "ninguna"
    /\ llamada' = [llamada EXCEPT !.fn = "celdas_vacias",
                                  !.sal = celdas_vacias(llamada.tablero)]
    /\ UNCHANGED totito

\* a call that writes the list it is passed: afterwards the list is the
\* board the call returns
Escribe(l, fn, args, r) ==
    [l EXCEPT !.fn = fn, !.args = args, !.sal = r, !.tablero = r.tablero]

LlamarMinimax ==
    /\ llamada.fn = "ninguna"
    /\ \E es_ia \in BOOLEAN, w \in Ventanas :
         LET profundidad == IF es_ia THEN 1 ELSE 0
         IN  llamada' = Escribe(llamada, "minimax",
                                <<es_ia, profundidad, w[1], w[2]>>,
                                minimax(llamada.tablero, es_ia, profundidad, w[1], w[2]))
    /\ UNCHANGED totito

LlamarMejorJugada ==
    /\ llamada.fn = "ninguna"
    /\ llamada' = Escribe(llamada, "mejor_jugada", <<>>,
                          mejor_jugada(llamada.tablero))
    /\ UNCHANGED totito

LlamarJugadaIA ==
    /\ llamada.fn = "ninguna"
    /\ \E dificultad \in Dificultades :
         \E s \in Sorteos(llamada.tablero, dificultad) :
            llamada' = Escribe(llamada, "jugada_ia",
                               <<dificultad, s[1], s[2]>>,
                               jugada_ia(llamada.tablero, dificultad, s[1], s[2]))
    /\ UNCHANGED totito

---------------------------------------------------------------------------
(* Events of the user interface *)

Click ==
    /\ \E x \in Pixeles, y \in Pixeles : totito' = _click_tablero(totito, x, y)
    /\ UNCHANGED llamada

TurnoIA ==
    /\ totito.pendientes > 0
    /\ \E s \in Sorteos(totito.tablero, totito.dificultad) :
         totito' = _turno_ia(totito, s[1], s[2])
    /\ UNCHANGED llamada

\* the buttons "Nueva partida" and "Reset total", and the three buttons of
\* the difficulty selector
NuevaPartida ==
    /\ totito' = nueva_partida(totito)
    /\ UNCHANGED llamada

ResetTotal ==
    /\ totito' = reset_total(totito)
    /\ UNCHANGED llamada

CambiarDificultad ==
    /\ \E diff \in Dificultades : totito' = _cambiar_dificultad(totito, diff)
    /\ UNCHANGED llamada

\* the window is followed while at most MaxPendientes callbacks of
\* root.after are scheduled and until MaxPartidas rounds are on the
\* scoreboard: with the scoreboard that full a further round can be opened
\* by every reset, and is played only after "Reset total"
MaxPendientes == 2
MaxPartidas == 1
Anotadas(s) == s.puntajes[X] + s.puntajes[empate] + s.puntajes[O]
Acotado ==
    /\ totito'.pendientes <= MaxPendientes
    /\ Anotadas(totito') <= MaxPartidas
    /\ Anotadas(totito') = MaxPartidas =>
           (~totito'.juego_activo \/ totito'.tablero = TableroVacio)

ClickAcotado == Click /\ Acotado

TurnoIAAcotado == TurnoIA /\ Acotado

NuevaPartidaAcotada == NuevaPartida /\ Acotado

CambiarDificultadAcotado == CambiarDificultad /\ Acotado

---------------------------------------------------------------------------
(* Specifications *)

\* the outcome evaluator on every board
InitEvaluador ==
    /\ totito = Construido
    /\ llamada \in {SinLlamada(t) : t \in Tableros}

NextEvaluador == LlamarVerificarGanador \/ LlamarCeldasVacias

SpecEvaluador == InitEvaluador /\ [][NextEvaluador]_vars

\* the move search engine on every board
NextBusqueda == LlamarMejorJugada \/ LlamarMinimax

SpecBusqueda == InitEvaluador /\ [][NextBusqueda]_vars

\* the difficulty modulator
InitModulador ==
    /\ totito = Construido
    /\ llamada \in {SinLlamada(t) : t \in TablerosModulador}

NextModulador == LlamarJugadaIA \/ LlamarMejorJugada

SpecModulador == InitModulador /\ [][NextModulador]_vars

\* one round played in the window as constructed (difficulty "Facil": the
\* computer plays any empty cell or the cell of mejor_jugada)
InitPartida ==
    /\ totito = Construido
    /\ llamada = SinLlamada(TableroVacio)

NextPartida == Click \/ TurnoIA

SpecPartida == InitPartida /\ [][NextPartida]_vars

\* one round played after the user has chosen "Dificil": every computer move
\* is the cell of mejor_jugada
InitOptimo ==
    /\ totito = _cambiar_dificultad(Construido, Dificil)
    /\ llamada = SinLlamada(TableroVacio)

SpecOptimo == InitOptimo /\ [][NextPartida]_vars

\* the window with all its events, in any order: clicks on the canvas,
\* scheduled callbacks of the computer's turn, and the five buttons
Init ==
    /\ totito = Construido
    /\ llamada = SinLlamada(TableroVacio)

Next ==
    \/ ClickAcotado
    \/ TurnoIAAcotado
    \/ NuevaPartidaAcotada
    \/ ResetTotal
    \/ CambiarDificultadAcotado

Spec == Init /\ [][Next]_vars

\* one round of the window as constructed in which the user may press
\* "Nueva partida" during the delay of root.after, while fewer than
\* MaxPendientes callbacks are scheduled. Tk's main loop runs every
\* scheduled callback once its 350 ms have passed, and nothing cancels one:
\* a callback that is pending stays pending until it runs (weak fairness)
ReinicioEnEspera ==
    /\ totito.juego_activo
    /\ ~totito.turno_humano
    /\ 0 < totito.pendientes
    /\ totito.pendientes < MaxPendientes
    /\ NuevaPartida

NextRonda == Click \/ TurnoIA \/ ReinicioEnEspera

SpecRondaJusta == InitPartida /\ [][NextRonda]_vars /\ WF_vars(TurnoIA)

---------------------------------------------------------------------------
(* Properties *)

\* the empty cells of a board, as a set
Vacias(t) == {i \in Celdas : t[i] = None}

\* the 8 winning lines, as a set
Lineas == {COMBINACIONES_GANADORAS[k] : k \in 1..Len(COMBINACIONES_GANADORAS)}

\* the lines of t whose three cells all hold player p
LineasDe(t, p) == {l \in Lineas : \A k \in 1..3 : t[l[k]] = p}

\* it is the computer's turn in the window: the human has moved, the round
\* goes on and the callback of the computer's turn is scheduled
TocaIA == totito.juego_activo /\ ~totito.turno_humano /\ totito.pendientes > 0

\* C1: in a round started on the empty board by the human, in which every
\* computer move is the cell of mejor_jugada, verificar_ganador never reports
\* X as the winner; every finished round is a win of O or a draw
C1_HumanoNuncaGana ==
    /\ verificar_ganador(totito.tablero).ganador # X
    /\ ~totito.juego_activo => verificar_ganador(totito.tablero).ganador \in {O, empate}

\* a round played to the last cell has ended in a draw
C1_PartidaEmpatada ==
    /\ ~totito.juego_activo
    /\ verificar_ganador(totito.tablero).ganador = empate
    /\ totito.puntajes.empate = 1

\* C2: when a call of mejor_jugada or of minimax returns (also a call that
\* left its loop through the pruning break), the board is cell for cell the
\* board the call was entered with
C2_TableroRestaurado ==
    llamada.fn \in {"mejor_jugada", "minimax"} => llamada.tablero = llamada.entrada

\* a call of minimax for the maximizer has returned that left its loop
\* through the pruning break at the first empty cell (O wins there, which
\* reaches beta) with other empty cells still untried
C2_RetornoTrasPoda ==
    /\ llamada.fn = "minimax"
    /\ llamada.args = <<TRUE, 1, -2, 2>>
    /\ verificar_ganador(llamada.entrada).ganador = None
    /\ Len(celdas_vacias(llamada.entrada)) >= 3
    /\ LineasDe([llamada.entrada EXCEPT ![celdas_vacias(llamada.entrada)[1]] = O], O) # {}
    /\ llamada.sal.puntaje = 8

\* C3: on every board of 9 cells verificar_ganador returns (p, line) with
\* line one of the 8 triples and all three of its cells holding p when some
\* triple is completed by a player, ("empate", []) when no triple is
\* completed and no cell is empty, and (None, None) otherwise
C3_Evaluacion ==
    llamada.fn = "verificar_ganador" =>
        LET t == llamada.entrada
            r == llamada.sal
        IN  IF LineasDe(t, X) \cup LineasDe(t, O) # {}
            THEN /\ r.ganador \in {X, O}
                 /\ r.linea \in LineasDe(t, r.ganador)
            ELSE IF Vacias(t) = {}
            THEN /\ r.ganador = empate
                 /\ r.linea = <<>>
            ELSE /\ r.ganador = None
                 /\ r.linea = None

\* verificar_ganador has returned a winner on a board on which both players
\* have a completed line
C3_GanadorReportado ==
    /\ llamada.fn = "verificar_ganador"
    /\ LineasDe(llamada.entrada, X) # {}
    /\ LineasDe(llamada.entrada, O) # {}
    /\ llamada.sal.ganador \in {X, O}

\* plain minimax without pruning: the terminal scores of minimax, the
\* maximum over the computer's moves, the minimum over the human's
Maximo(S) == CHOOSE m \in S : \A x \in S : x <= m
Minimo(S) == CHOOSE m \in S : \A x \in S : m <= x

RECURSIVE minimax_sin_poda(_, _, _)
minimax_sin_poda(t, es_ia, profundidad) ==
    LET ganador == verificar_ganador(t).ganador
    IN  IF ganador = O THEN 10 - profundidad
        ELSE IF ganador = X THEN profundidad - 10
        ELSE IF ganador = empate THEN 0
        ELSE IF es_ia
             THEN Maximo({minimax_sin_poda([t EXCEPT ![i] = O], FALSE, profundidad + 1) :
                            i \in Vacias(t)})
             ELSE Minimo({minimax_sin_poda([t EXCEPT ![i] = X], TRUE, profundidad + 1) :
                            i \in Vacias(t)})

\* of the pairs <<cell, score>>, the first cell (lowest index) whose score is
\* the greatest; -1 when there is no pair
PrimeraMayor(P) ==
    IF P = {} THEN -1
    ELSE (CHOOSE p \in P : \A q \in P : q[2] < p[2] \/ (q[2] = p[2] /\ q[1] >= p[1]))[1]

\* the reference driver: each candidate scored by plain minimax
mejor_jugada_sin_poda(t) ==
    PrimeraMayor({<<i, minimax_sin_poda([t EXCEPT ![i] = O], FALSE, 0)>> : i \in Vacias(t)})

\* C4: on every board of a round with the computer to move, mejor_jugada
\* returns the cell the reference driver without pruning returns
C4_PodaNoCambiaJugada ==
    TocaIA => mejor_jugada(totito.tablero).movimiento = mejor_jugada_sin_poda(totito.tablero)

\* the computer is to move with 6 cells empty, and on that board the pruned
\* search has returned a cell other than the first empty one
C4_BusquedaConPoda ==
    /\ TocaIA
    /\ Cardinality(Vacias(totito.tablero)) = 6
    /\ mejor_jugada(totito.tablero).movimiento # celdas_vacias(totito.tablero)[1]

\* C5: on every board of a round that has an empty cell, mejor_jugada
\* returns the index of an empty cell (never an occupied cell, never -1)
C5_JugadaEnCeldaVacia ==
    Vacias(totito.tablero) # {} =>
        mejor_jugada(totito.tablero).movimiento \in Vacias(totito.tablero)

\* the computer is to move on a board whose first cell is occupied, and
\* mejor_jugada returns a later cell, which is empty
C5_PrimeraCeldaOcupada ==
    /\ TocaIA
    /\ totito.tablero[0] = X
    /\ mejor_jugada(totito.tablero).movimiento > 0
    /\ totito.tablero[mejor_jugada(totito.tablero).movimiento] = None

C7_JugadaEntreVacias ==
    (llamada.fn = "jugada_ia" /\ Vacias(llamada.entrada) # {}) =>
        llamada.sal.movimiento \in Vacias(llamada.entrada)

\* jugada_ia has taken the random branch and returned the cell random.choice
\* picked, which is not the first empty cell
C7_RamaAleatoria ==
    /\ llamada.fn = "jugada_ia"
    /\ llamada.args[1] = Normal
    /\ llamada.args[2] = 10
    /\ llamada.args[3] >= 2
    /\ llamada.sal.movimiento = celdas_vacias(llamada.entrada)[llamada.args[3]]

\* C8: on a board without an empty cell mejor_jugada and jugada_ia (on every
\* difficulty) return -1 and leave the board as it was
C8_SinCeldasVacias ==
    (llamada.fn \in {"mejor_jugada", "jugada_ia"} /\ Vacias(llamada.entrada) = {}) =>
        /\ llamada.sal.movimiento = -1
        /\ llamada.tablero = llamada.entrada

\* jugada_ia has returned on a full board without a winner
C8_TableroLleno ==
    /\ llamada.fn = "jugada_ia"
    /\ llamada.args[1] = Facil
    /\ verificar_ganador(llamada.entrada).ganador = empate
    /\ llamada.sal.movimiento = -1

\* the score mejor_jugada gives each empty cell of t: minimax for the
\* human's turn after the computer's mark, with the widest window
Puntajes(t) ==
    {<<i, minimax([t EXCEPT ![i] = O], FALSE, 0, -Inf, Inf).puntaje>> : i \in Vacias(t)}

\* C9: on every board with an empty cell mejor_jugada returns the
\* lowest-indexed cell among the empty cells of maximal minimax score
C9_PrimeraDeLasMejores ==
    (llamada.fn = "mejor_jugada" /\ Vacias(llamada.entrada) # {}) =>
        llamada.sal.movimiento = PrimeraMayor(Puntajes(llamada.entrada))

\* mejor_jugada has returned cell 0 on the empty board, where cell 4 scores
\* the same
C9_TableroVacioCeldaCero ==
    /\ llamada.fn = "mejor_jugada"
    /\ llamada.entrada = TableroVacio
    /\ llamada.sal.movimiento = 0
    /\ \E p \in Puntajes(TableroVacio) : \E q \in Puntajes(TableroVacio) :
          p[1] = 0 /\ q[1] = 4 /\ p[2] = q[2]

\* the empty cells of t that complete a line for player p
GanaEn(t, p) == {i \in Vacias(t) : LineasDe([t EXCEPT ![i] = p], p) # {}}

\* C10: on every board of a round with the computer to move, on which no
\* cell completes a line for O and exactly one empty cell completes a line
\* for X, mejor_jugada returns that cell
C10_BloqueaAmenaza ==
    (TocaIA /\ GanaEn(totito.tablero, O) = {}
            /\ Cardinality(GanaEn(totito.tablero, X)) = 1) =>
        mejor_jugada(totito.tablero).movimiento \in GanaEn(totito.tablero, X)

\* the board [X, X, None, None, O, None, None, None, None] with the computer
\* to move, on which mejor_jugada returns 2
C10_BloqueoFilaSuperior ==
    /\ TocaIA
    /\ totito.tablero = [i \in Celdas |-> IF i \in {0, 1} THEN X
                                          ELSE IF i = 4 THEN O ELSE None]
    /\ mejor_jugada(totito.tablero).movimiento = 2

---------------------------------------------------------------------------
(* C11: the round continued from [O, None, None, None, X, None, ...] *)

\* the window on "Dificil" showing that board, the human to move
Escenario ==
    [_cambiar_dificultad(Construido, Dificil) EXCEPT
        !.tablero = [i \in Celdas |-> IF i = 0 THEN O ELSE IF i = 4 THEN X ELSE None]]

\* the cell a click at pixel (x, y) falls in
CeldaDe(x, y) == (y \div (340 \div 3)) * 3 + x \div (340 \div 3)

\* the empty cells where a human mark minimizes the minimax score
HumanoOptimo(t) ==
    LET P == {<<i, minimax([t EXCEPT ![i] = X], TRUE, 0, -Inf, Inf).puntaje>> : i \in Vacias(t)}
    IN  {p[1] : p \in {p \in P : \A q \in P : p[2] <= q[2]}}

\* the states one event after s: the pending _turno_ia callback, or else a
\* click in the grid (with optimo, only in a cell of HumanoOptimo)
Sucesores(s, optimo) ==
    IF s.pendientes > 0
    THEN {_turno_ia(s, d[1], d[2]) : d \in Sorteos(s.tablero, s.dificultad)}
    ELSE LET celdas == IF optimo THEN HumanoOptimo(s.tablero) ELSE Celdas
         IN  {_click_tablero(s, p[1], p[2]) :
                p \in {p \in Pixeles \X Pixeles :
                         p[1] < 339 /\ p[2] < 339 /\ CeldaDe(p[1], p[2]) \in celdas}}

RECURSIVE Cierre(_, _, _)
Cierre(vistos, frontera, optimo) ==
    IF frontera = {} THEN vistos
    ELSE Cierre(vistos \cup frontera,
                UNION {Sucesores(s, optimo) : s \in frontera} \ (vistos \cup frontera),
                optimo)

\* every state of the round from Escenario on, and those in which the human
\* has only placed score-minimizing marks
DesdeEscenario == Cierre({}, {Escenario}, FALSE)
LineaOptima == Cierre({}, {Escenario}, TRUE)

\* C11: in the round continued from [O, None, None, None, X, None, None,
\* None, None] with every computer move from mejor_jugada, no state has X as
\* the winner, and every finished state in which the human has only placed
\* score-minimizing marks is a draw
C11_EscenarioSinDerrota ==
    /\ totito \in DesdeEscenario => verificar_ganador(totito.tablero).ganador # X
    /\ (totito \in LineaOptima /\ ~totito.juego_activo) =>
          verificar_ganador(totito.tablero).ganador = empate

\* a round that went through the scenario with score-minimizing human marks
\* has finished as a draw
C11_EscenarioEmpatado ==
    /\ totito \in LineaOptima
    /\ totito.tablero[0] = O /\ totito.tablero[4] = X
    /\ ~totito.juego_activo
    /\ verificar_ganador(totito.tablero).ganador = empate
    /\ totito.puntajes = [X |-> 0, empate |-> 1, O |-> 0]

---------------------------------------------------------------------------
\* the lines of the board in the window that one player occupies fully
LineasCompletas == LineasDe(totito.tablero, X) \cup LineasDe(totito.tablero, O)

\* C12 as stated: on every board of a round (alternating legal marks, human
\* first, play stopping at the first winner or draw) at most one of the 8
\* lines is fully occupied by one player
C12_UnaSolaLinea == Cardinality(LineasCompletas) <= 1

\* C12, amended: on every board of a round the fully occupied lines belong
\* to one player and are at most two; two are completed only by the human's
\* fifth mark, on the full board, and cross in one cell
C12_LineasDeUnJugador ==
    /\ LineasDe(totito.tablero, X) = {} \/ LineasDe(totito.tablero, O) = {}
    /\ Cardinality(LineasCompletas) <= 2
    /\ Cardinality(LineasDe(totito.tablero, O)) <= 1
    /\ Cardinality(LineasCompletas) = 2 =>
          /\ Vacias(totito.tablero) = {}
          /\ \E l1 \in LineasCompletas : \E l2 \in LineasCompletas :
                Cardinality({l1[k] : k \in 1..3} \cap {l2[k] : k \in 1..3}) = 1

\* the human's fifth mark has completed two lines at once, and the round has
\* ended as one win of X
C12_DosLineasALaVez ==
    /\ Cardinality(LineasDe(totito.tablero, X)) = 2
    /\ ~totito.juego_activo
    /\ totito.puntajes = [X |-> 1, empate |-> 0, O |-> 0]

---------------------------------------------------------------------------
\* the number of cells of t that hold p
Marcas(t, p) == Cardinality({i \in Celdas : t[i] = p})

\* C13: in every state of the window, under any order of clicks, scheduled
\* callbacks of _turno_ia, nueva_partida, reset_total and difficulty changes,
\* the numbers of X marks and of O marks on the board differ by at most one
C13_DiferenciaDeMarcas ==
    /\ Marcas(totito.tablero, X) - Marcas(totito.tablero, O) <= 1
    /\ Marcas(totito.tablero, O) - Marcas(totito.tablero, X) <= 1

\* the step places a mark of p in a cell that was empty
Marca(p) == \E i \in Celdas : totito.tablero[i] = None /\ totito'.tablero[i] = p

\* C14: within a round the marks alternate, the human first: the computer
\* marks only a board on which the human is one mark ahead (never twice in a
\* row, never before the human), and the human marks only a board on which
\* every human mark has been answered
C14_MarcasAlternadas ==
    [][/\ Marca(O) => Marcas(totito.tablero, X) = Marcas(totito.tablero, O) + 1
       /\ Marca(X) => Marcas(totito.tablero, X) = Marcas(totito.tablero, O)]_vars

\* C15: between event handlers juego_activo is True exactly when
\* verificar_ganador returns (None, None) for the board in the window, and
\* every mark is placed on a board without a winner that is not full
C15_EvaluadoTrasCadaMarca ==
    /\ [](totito.juego_activo <=> verificar_ganador(totito.tablero).ganador = None)
    /\ [][(Marca(X) \/ Marca(O)) =>
             verificar_ganador(totito.tablero).ganador = None]_vars

\* a round in which the computer marked first has been evaluated after the
\* computer's third mark and ended as its win
C15_FinTrasMarcaDeIA ==
    /\ ~totito.juego_activo
    /\ verificar_ganador(totito.tablero).ganador = O
    /\ Marcas(totito.tablero, O) = 3
    /\ Marcas(totito.tablero, X) = 2
    /\ totito.puntajes[O] = 1

---------------------------------------------------------------------------
\* the call of jugada_ia recorded in llamada has returned what mejor_jugada
\* returned to it
RamaMinimax ==
    /\ llamada.fn = "jugada_ia"
    /\ Vacias(llamada.entrada) # {}
    /\ \/ llamada.args[1] = Dificil
       \/ llamada.args[1] = Normal /\ llamada.args[2] >= 50
       \/ llamada.args[1] = Facil /\ llamada.args[2] >= 90

---------------------------------------------------------------------------
\* C17 as stated: in every state of the window the number of X marks on the
\* board does not exceed the number of O marks
C17_XNoSuperaO == Marcas(totito.tablero, X) <= Marcas(totito.tablero, O)

\* C17, amended: in every state of the window the number of X marks exceeds
\* the number of O marks by at most one
C17_XSuperaPorUna == Marcas(totito.tablero, X) <= Marcas(totito.tablero, O) + 1

\* the human, who moves first, has placed the fifth mark on a board with four
\* marks of the computer
C17_QuintaMarcaHumana ==
    /\ Marcas(totito.tablero, X) = 5
    /\ Marcas(totito.tablero, O) = 4
    /\ ~totito.juego_activo

---------------------------------------------------------------------------
---------------------------------------------------------------------------
---------------------------------------------------------------------------
\* C20: on every board of a round with the computer to move on which some
\* empty cell completes a line for O, mejor_jugada returns the lowest-indexed
\* such cell
C20_VictoriaInmediata ==
    (TocaIA /\ GanaEn(totito.tablero, O) # {}) =>
        LET m == mejor_jugada(totito.tablero).movimiento
        IN  /\ m \in GanaEn(totito.tablero, O)
            /\ \A j \in GanaEn(totito.tablero, O) : m <= j

\* the computer is to move, can complete a line at once, and mejor_jugada
\* returns the completing cell although a lower-indexed cell is empty
C20_GanaSinEsperar ==
    /\ TocaIA
    /\ mejor_jugada(totito.tablero).movimiento \in GanaEn(totito.tablero, O)
    /\ \E j \in Vacias(totito.tablero) : j < mejor_jugada(totito.tablero).movimiento
    /\ Cardinality(Vacias(totito.tablero)) >= 4

---------------------------------------------------------------------------
\* the game-theoretic result of board t with the computer (es_ia) or the
\* human to move: 1 when the computer can force a win, -1 when the human
\* can, 0 when best play of both is a draw
RECURSIVE Resultado(_, _)
Resultado(t, es_ia) ==
    IF LineasDe(t, O) # {} THEN 1
    ELSE IF LineasDe(t, X) # {} THEN -1
    ELSE IF Vacias(t) = {} THEN 0
    ELSE IF es_ia
         THEN Maximo({Resultado([t EXCEPT ![i] = O], FALSE) : i \in Vacias(t)})
         ELSE Minimo({Resultado([t EXCEPT ![i] = X], TRUE) : i \in Vacias(t)})

Signo(n) == IF n > 0 THEN 1 ELSE IF n < 0 THEN -1 ELSE 0

\* C21: on every board of a round with the computer to move, each call of
\* minimax that mejor_jugada starts returns an integer of -9..10 whose sign
\* is the game-theoretic result of the position it is called on; a score
\* other than 0 is 10 - d or d - 10 for a depth d of 0..8
C21_PuntajeYResultado ==
    TocaIA =>
        \A p \in Puntajes(totito.tablero) :
            /\ p[2] \in -9..10
            /\ p[2] > 0 => (10 - p[2]) \in 0..8
            /\ p[2] < 0 => (p[2] + 10) \in 0..8
            /\ Signo(p[2]) = Resultado([totito.tablero EXCEPT ![p[1]] = O], FALSE)

\* the computer is to move on a board where the calls of minimax return a
\* forced win found below the first level, a draw and a forced loss
C21_TresResultados ==
    /\ TocaIA
    /\ \E p \in Puntajes(totito.tablero) : p[2] \in 1..9
    /\ \E p \in Puntajes(totito.tablero) : p[2] = 0
    /\ \E p \in Puntajes(totito.tablero) : p[2] < 0

---------------------------------------------------------------------------
\* C22: a computer turn still pending when a new round is started places no
\* mark on the new board: the first mark on an empty board is the human's
C22_PrimeraMarcaHumana ==
    [][(totito.tablero = TableroVacio /\ totito'.tablero # TableroVacio)
          => Marca(X)]_vars

---------------------------------------------------------------------------
PuntajesEnCero == [X |-> 0, empate |-> 0, O |-> 0]

Reiniciado(s) ==
    /\ s.tablero = TableroVacio
    /\ s.juego_activo
    /\ s.turno_humano

\* C23: nueva_partida and _cambiar_dificultad leave an empty board with
\* juego_activo and turno_humano True and the three counters of puntajes as
\* they were; reset_total leaves the same and the three counters at 0
C23_EfectoDeLosReinicios ==
    [][/\ (NuevaPartida \/ CambiarDificultad) =>
              (Reiniciado(totito') /\ totito'.puntajes = totito.puntajes)
       /\ ResetTotal =>
              (Reiniciado(totito') /\ totito'.puntajes = PuntajesEnCero)]_vars

\* a round was reset on another difficulty with a computer win on the
\* scoreboard
C23_ReinicioConMarcador ==
    /\ Reiniciado(totito)
    /\ totito.dificultad = Normal
    /\ totito.puntajes = [X |-> 0, empate |-> 0, O |-> 1]

---------------------------------------------------------------------------
\* the step ends a round: the board became terminal
FinDePartida == totito.juego_activo /\ ~totito'.juego_activo

\* C24: a step that ends a round adds 1 to the one counter of puntajes that
\* verificar_ganador names for the final board and leaves the other two;
\* the counters change in no other step but a reset_total; on a finished
\* round neither a click nor a pending _turno_ia changes a counter
C24_AnotadaUnaVez ==
    /\ [](~totito.juego_activo =>
            /\ \A x \in Pixeles, y \in Pixeles :
                  _click_tablero(totito, x, y).puntajes = totito.puntajes
            /\ totito.pendientes > 0 =>
                  \A s \in Sorteos(totito.tablero, totito.dificultad) :
                     _turno_ia(totito, s[1], s[2]).puntajes = totito.puntajes)
    /\ [][/\ FinDePartida =>
                LET g == verificar_ganador(totito'.tablero).ganador
                IN  /\ g \in {X, O, empate}
                    /\ totito'.puntajes =
                          [totito.puntajes EXCEPT ![Contador(g)] = @ + 1]
          /\ totito'.puntajes # totito.puntajes =>
                (FinDePartida \/ ResetTotal)]_vars

\* a round won by the human is on the scoreboard, cells are still empty
\* and a callback of root.after is still to run
C24_CallbackTrasElFin ==
    /\ ~totito.juego_activo
    /\ totito.pendientes > 0
    /\ totito.puntajes = [X |-> 1, empate |-> 0, O |-> 0]
    /\ Vacias(totito.tablero) # {}

---------------------------------------------------------------------------
\* the pixel (x, y) lies on the grid of 3 x 3 cells
EnCuadricula(x, y) == x \div (340 \div 3) <= 2 /\ y \div (340 \div 3) <= 2

\* the step leaves every marked cell as it is
ConservaMarcas ==
    \A i \in Celdas :
        totito.tablero[i] # None => totito'.tablero[i] = totito.tablero[i]

\* C25: a marked cell is changed by no step but a reset, which clears the
\* whole board; every other step leaves the board or marks one cell that was
\* empty; a click on a marked cell, a click while it is not the human's
\* turn, and a click or a pending _turno_ia on a finished round leave the
\* board as it is
C25_MarcasIntactas ==
    /\ [](/\ \A x \in Pixeles, y \in Pixeles :
                (\/ ~totito.juego_activo
                 \/ ~totito.turno_humano
                 \/ (EnCuadricula(x, y) /\ totito.tablero[CeldaDe(x, y)] # None))
                => _click_tablero(totito, x, y).tablero = totito.tablero
          /\ (~totito.juego_activo /\ totito.pendientes > 0) =>
                \A s \in Sorteos(totito.tablero, totito.dificultad) :
                   _turno_ia(totito, s[1], s[2]).tablero = totito.tablero)
    /\ [][IF ConservaMarcas
          THEN Cardinality({i \in Celdas :
                              totito'.tablero[i] # totito.tablero[i]}) <= 1
          ELSE /\ totito'.tablero = TableroVacio
               /\ NuevaPartida \/ ResetTotal \/ CambiarDificultad]_vars

\* the human has marked twice and the computer once, and the callback of
\* the second human mark has not run yet: every cell a click falls in is
\* refused, marked or not
C25_ClickFueraDeTurno ==
    /\ totito.juego_activo
    /\ ~totito.turno_humano
    /\ totito.pendientes = 1
    /\ Marcas(totito.tablero, X) = 2
    /\ Marcas(totito.tablero, O) = 1

---------------------------------------------------------------------------
\* the status line shows "IA pensando...": the round goes on and it is not
\* the human's turn
IAPensando == totito.juego_activo /\ ~totito.turno_humano

\* C26: the scheduled callbacks of _turno_ia being run, every state in
\* which the window shows "IA pensando" is followed by one in which the
\* round has ended or it is the human's turn again
C26_TurnoDevuelto ==
    IAPensando ~> (~totito.juego_activo \/ totito.turno_humano)

\* the human has made the fourth mark of a round that goes on, and the
\* computer's answer is pending
C26_EsperaTrasCuartaMarca ==
    /\ IAPensando
    /\ totito.pendientes = 1
    /\ Marcas(totito.tablero, X) = 4
    /\ Marcas(totito.tablero, O) = 3

=============================================================================
